---- MODULE Spec2Model ----
(***************************************************************************)
(* ETL IDA: the load of normalized records into the star schema            *)
(* (PostgreSQLLoader) and the orchestration of a run (ETLPipeline.run),    *)
(* as written in etl_ida_sysint.py.                                        *)
(*                                                                         *)
(* The store is the committed content of the four dimension tables and of  *)
(* ida.fact_ida; every table is a bag of rows, so that a row inserted      *)
(* twice shows as two copies.  A dimension row's surrogate key             *)
(* (tempo_key, grupo_key, ...) is generated by the database and is         *)
(* represented by the natural key of the row it identifies.                *)
(***************************************************************************)
EXTENDS Bags, FiniteSets, Integers, Sequences, TLC

\* Bounds of the model.
BatchSize == 2      \* ETLConfig.batch_size, scaled down
MaxRecursos == 3    \* resources returned by the catalog request
MaxLoads == 3       \* load calls issued by the load driver
MaxFaults == 1      \* database failures injected in one behaviour

VARIABLES
    db,             \* committed rows of ida.dim_* and ida.fact_ida
    ld,             \* per loader: the frame of its load() call and its open transaction
    pool,           \* per loader: _connection_pool, [open, out]
    faults,         \* database failures injected so far
    pc,             \* position of ETLPipeline.run / of the driver
    recursos,       \* number of resources in recursos_filtrados
    idx,            \* index of the resource of the current loop iteration
    all_records,    \* ETLPipeline.run: the buffer all_records
    stats,          \* ETLPipeline.run: stats
    fetches,        \* network requests issued so far (catalog API and downloads)
    outcomes,       \* per resource processed so far: what happened to it
    health,         \* result of check_database_health: "unchecked", "ok", "failed"
    final_flush,    \* the load of the remaining records: "none", "loading", "loaded", "failed"
    exit_status,    \* main: the status given to sys.exit, -1 before it
    calls,          \* load driver: the load calls completed so far
    sheet,          \* ODSExtractor.extract and DataTransformer.transform of one sheet
    hashed          \* two DataRecords and the strings and digests of generate_hash

runVars == <<pc, recursos, idx, all_records, stats, fetches, outcomes, health,
             final_flush, exit_status>>

pureVars == <<sheet, hashed>>

vars == <<db, ld, pool, faults, runVars, calls, pureVars>>

\* No sheet is being read, no record is being hashed.
NoSheet == [pc |-> "none"]

NoHashed == [pc |-> "none"]

Loaders == {1, 2}

Min(a, b) == IF a < b THEN a ELSE b

Range(s) == {s[n] : n \in 1..Len(s)}

(***************************************************************************)
(* DataRecord and its hash                                                 *)
(***************************************************************************)

\* valor is a float; the model keeps it as a number of hundredths.
DataRecord(am, g, s, v, val, arq, lin) ==
    [ano_mes |-> am, grupo_economico |-> g, servico |-> s, variavel |-> v,
     valor |-> val, arquivo_origem |-> arq, linha_origem |-> lin]

\* str(float) of a value with at most two decimals: 85 -> "0.85", 700 -> "7.0".
FloatRepr(val) ==
    LET ip == val \div 100
        fp == val % 100
    IN  ToString(ip) \o "." \o
        (IF fp % 10 = 0 THEN ToString(fp \div 10)
         ELSE IF fp < 10 THEN "0" \o ToString(fp)
         ELSE ToString(fp))

\* hashlib.md5(...).hexdigest(): the digest stands for the string it digests.
Md5(content) == <<"md5", content>>

\* Mutant: the origin of the record is part of the hashed string.
HashContentWithOrigin(r) ==
    r.ano_mes \o "|" \o r.grupo_economico \o "|" \o r.servico \o "|"
        \o r.variavel \o "|" \o FloatRepr(r.valor) \o "|" \o r.arquivo_origem

HashContent(r) ==
    r.ano_mes \o "|" \o r.grupo_economico \o "|" \o r.servico \o "|"
        \o r.variavel \o "|" \o FloatRepr(r.valor)

generate_hash(r) == Md5(HashContent(r))

(***************************************************************************)
(* datetime.strptime(ano_mes, '%Y-%m-%d') and the time dimension           *)
(***************************************************************************)

\* The years of the resources the run keeps (ANOS_ALVO).
Anos == {2017, 2018, 2019}

Pad2(n) == IF n < 10 THEN "0" \o ToString(n) ELSE ToString(n)

\* The strings strptime reads as the date (y, m, 1): %m and %d take one or two digits.
DateForms(y, m) ==
    {ToString(y) \o "-" \o ms \o "-" \o ds : ms \in {Pad2(m), ToString(m)}, ds \in {"01", "1"}}

DateStrings == UNION {DateForms(y, m) : y \in Anos, m \in 1..12}

DateTable ==
    [s \in DateStrings |-> CHOOSE p \in Anos \X (1..12) : s \in DateForms(p[1], p[2])]

strptime(s) ==
    IF s \in DateStrings
    THEN [ok |-> TRUE, year |-> DateTable[s][1], month |-> DateTable[s][2]]
    ELSE [ok |-> FALSE, year |-> 0, month |-> 0]

\* (Marco stands for the name with its cedilla.)
month_names ==
    [m \in 1..12 |->
        CASE m = 1 -> "Janeiro"   [] m = 2 -> "Fevereiro" [] m = 3 -> "Marco"
          [] m = 4 -> "Abril"     [] m = 5 -> "Maio"      [] m = 6 -> "Junho"
          [] m = 7 -> "Julho"     [] m = 8 -> "Agosto"    [] m = 9 -> "Setembro"
          [] m = 10 -> "Outubro"  [] m = 11 -> "Novembro" [] m = 12 -> "Dezembro"]

\* The value of a date column: the text is cast to a date by the database.
DateValue(s) == LET dt == strptime(s) IN <<dt.year, dt.month, 1>>

\* Mutant: the quarter and the half computed from the month itself.
TempoRowFromMonth(ano_mes) ==
    LET dt == strptime(ano_mes)
    IN  [ano_mes |-> DateValue(ano_mes), ano |-> dt.year, mes |-> dt.month,
         mes_nome |-> month_names[dt.month],
         trimestre |-> dt.month \div 3 + 1,
         semestre |-> dt.month \div 6 + 1]

TempoRow(ano_mes) ==
    LET dt == strptime(ano_mes)
    IN  [ano_mes |-> DateValue(ano_mes), ano |-> dt.year, mes |-> dt.month,
         mes_nome |-> month_names[dt.month],
         trimestre |-> (dt.month - 1) \div 3 + 1,
         semestre |-> (dt.month - 1) \div 6 + 1]

GrupoRow(grp) == [grupo_codigo |-> grp, grupo_nome |-> grp, grupo_normalizado |-> grp]

ServicoRow(svc) == [servico_codigo |-> svc, servico_nome |-> svc, servico_descricao |-> svc]

VariavelRow(var) == [variavel_codigo |-> var, variavel_nome |-> var]

(***************************************************************************)
(* The store and the SQL statements                                        *)
(***************************************************************************)

Tables == {"dim_tempo", "dim_grupo_economico", "dim_servico", "dim_variavel", "fact_ida"}

EmptyStore == [t \in Tables |-> EmptyBag]

StorePlus(a, b) == [t \in Tables |-> a[t] (+) b[t]]

\* The column of the ON CONFLICT target of each table.
ConflictKey(t, row) ==
    CASE t = "dim_tempo" -> row.ano_mes
      [] t = "dim_grupo_economico" -> row.grupo_codigo
      [] t = "dim_servico" -> row.servico_codigo
      [] t = "dim_variavel" -> row.variavel_codigo
      [] t = "fact_ida" -> row.hash_registro

KeysIn(bag, t) == {ConflictKey(t, row) : row \in BagToSet(bag)}

\* What a transaction sees: the committed rows and its own uncommitted ones.
Visible(c) == StorePlus(db, ld[c].pending)

\* Another open transaction holds an uncommitted row with this key.
HeldByOther(c, t, key) ==
    \E d \in Loaders \ {c} : key \in KeysIn(ld[d].pending[t], t)

\* INSERT ... ON CONFLICT (key) DO NOTHING of one row: "conflict" leaves the table
\* alone, "wait" blocks on the other transaction's row, "insert" adds the row.
\* Mutant: the insert without its ON CONFLICT clause and its unique index.
InsertOutcomeNoConflict(c, t, row) ==
    IF HeldByOther(c, t, ConflictKey(t, row)) THEN "wait" ELSE "insert"

\* Mutant: read-then-write, the key looked up among the visible rows only.
InsertOutcomeReadThenWrite(c, t, row) ==
    IF ConflictKey(t, row) \in KeysIn(Visible(c)[t], t) THEN "conflict" ELSE "insert"

InsertOutcome(c, t, row) ==
    IF ConflictKey(t, row) \in KeysIn(Visible(c)[t], t) THEN "conflict"
    ELSE IF HeldByOther(c, t, ConflictKey(t, row)) THEN "wait"
    ELSE "insert"

\* The rows the SELECT of the fact insert yields for a record: the join of the four
\* dimension tables filtered by the record's natural keys, with multiplicity.
JoinCount(vis, r) ==
    LET dt == strptime(r.ano_mes)
        nt == IF dt.ok
              THEN BagCardinality([row \in {x \in BagToSet(vis["dim_tempo"]) :
                                             x.ano_mes = DateValue(r.ano_mes)}
                                   |-> vis["dim_tempo"][row]])
              ELSE 0
        ng == BagCardinality([row \in {x \in BagToSet(vis["dim_grupo_economico"]) :
                                        x.grupo_codigo = r.grupo_economico}
                              |-> vis["dim_grupo_economico"][row]])
        ns == BagCardinality([row \in {x \in BagToSet(vis["dim_servico"]) :
                                        x.servico_codigo = r.servico}
                              |-> vis["dim_servico"][row]])
        nv == BagCardinality([row \in {x \in BagToSet(vis["dim_variavel"]) :
                                        x.variavel_codigo = r.variavel}
                              |-> vis["dim_variavel"][row]])
    IN  nt * ng * ns * nv

FactRow(r) ==
    [tempo_key |-> DateValue(r.ano_mes), grupo_key |-> r.grupo_economico,
     servico_key |-> r.servico, variavel_key |-> r.variavel,
     valor |-> r.valor, arquivo_origem |-> r.arquivo_origem,
     linha_origem |-> r.linha_origem, hash_registro |-> generate_hash(r)]

(***************************************************************************)
(* The records of the model                                                *)
(***************************************************************************)

R1 == DataRecord("2018-01-01", "CLARO", "SMP", "IDA", 85, "SMP_2018.ods", 0)
R2 == DataRecord("2018-02-01", "CLARO", "SMP", "IDA", 700, "SMP_2018.ods", 0)
\* The content of R1 read from another file: the same hash.
R3 == DataRecord("2018-01-01", "CLARO", "SMP", "IDA", 85, "SMP_2019.ods", 3)
R4 == DataRecord("2018-01-01", "OI", "SMP", "IDA", 85, "SMP_2018.ods", 1)
\* A record of a column label that _is_month_column accepts (int("+1") = 1) and
\* strptime rejects.
RBad == DataRecord("2018-+1-01", "OI", "SMP", "IDA", 85, "SMP_2018.ods", 2)

\* n records: R1, R2, R4, R3, R1, ...
Cycle(n) == [k \in 1..n |-> CASE k % 4 = 1 -> R1 [] k % 4 = 2 -> R2
                                [] k % 4 = 3 -> R4 [] OTHER -> R3]

(***************************************************************************)
(* PostgreSQLLoader.load                                                   *)
(***************************************************************************)

LdIdle ==
    [pc |-> "idle", records |-> <<>>,
     tempos |-> {}, grupos |-> {}, servicos |-> {}, variaveis |-> {},
     i |-> 0, j |-> 0, batch_inserted |-> 0, inserted |-> 0,
     pending |-> EmptyStore, waiting |-> <<>>, warnings |-> <<>>,
     ret |-> 0, exc |-> "none", failed_batch |-> 0, waited |-> FALSE,
     before |-> EmptyStore]

\* load() up to the first statement: the early return on no records, getconn and
\* the four sets of _ensure_dimensions.
StartLoad(records) ==
    IF records = <<>>
    THEN [LdIdle EXCEPT !.pc = "returned", !.before = db]
    ELSE [LdIdle EXCEPT !.pc = "dims", !.records = records, !.before = db,
                        !.tempos = {r.ano_mes : r \in Range(records)},
                        !.grupos = {r.grupo_economico : r \in Range(records)},
                        !.servicos = {r.servico : r \in Range(records)},
                        !.variaveis = {r.variavel : r \in Range(records)}]

GetConn(c, records) ==
    IF records = <<>> THEN pool ELSE [pool EXCEPT ![c].out = @ + 1]

\* Mutant: the connection is not given back.
PutConnLeaks(c) == pool

PutConn(c) == [pool EXCEPT ![c].out = @ - 1]

\* The dimension loop _ensure_dimensions is in: tempos, grupos, servicos, variaveis.
DimTable(f) ==
    IF f.tempos # {} THEN "dim_tempo"
    ELSE IF f.grupos # {} THEN "dim_grupo_economico"
    ELSE IF f.servicos # {} THEN "dim_servico"
    ELSE "dim_variavel"

DimTodo(f) ==
    IF f.tempos # {} THEN f.tempos
    ELSE IF f.grupos # {} THEN f.grupos
    ELSE IF f.servicos # {} THEN f.servicos
    ELSE f.variaveis

DimRow(t, code) ==
    CASE t = "dim_tempo" -> TempoRow(code)
      [] t = "dim_grupo_economico" -> GrupoRow(code)
      [] t = "dim_servico" -> ServicoRow(code)
      [] t = "dim_variavel" -> VariavelRow(code)

DimDone(f, t, code) ==
    LET g == CASE t = "dim_tempo" -> [f EXCEPT !.tempos = @ \ {code}]
               [] t = "dim_grupo_economico" -> [f EXCEPT !.grupos = @ \ {code}]
               [] t = "dim_servico" -> [f EXCEPT !.servicos = @ \ {code}]
               [] t = "dim_variavel" -> [f EXCEPT !.variaveis = @ \ {code}]
    IN  [g EXCEPT !.waiting = <<>>,
                  !.pc = IF g.tempos = {} /\ g.grupos = {} /\ g.servicos = {}
                            /\ g.variaveis = {}
                         THEN "facts" ELSE "dims"]

\* Mutant: the dimension insert adds its row whether or not the key exists.
EnsureOneAlwaysInserts(c, f, code) ==
    LET t == DimTable(f)
    IN  IF t = "dim_tempo" /\ ~strptime(code).ok
        THEN [f EXCEPT !.pc = "except", !.exc = "ValueError"]
        ELSE DimDone([f EXCEPT !.pending[t] = @ (+) SetToBag({DimRow(t, code)})], t, code)

\* One statement of _ensure_dimensions: the insert of one code of the current loop.
EnsureOne(c, f, code) ==
    LET t == DimTable(f)
    IN  IF t = "dim_tempo" /\ ~strptime(code).ok
        THEN [f EXCEPT !.pc = "except", !.exc = "ValueError"]
        ELSE LET row == DimRow(t, code)
                 out == InsertOutcome(c, t, row)
             IN  CASE out = "wait" -> [f EXCEPT !.waiting = <<t, code>>, !.waited = TRUE]
                   [] out = "conflict" -> DimDone(f, t, code)
                   [] out = "insert" ->
                        DimDone([f EXCEPT !.pending[t] = @ (+) SetToBag({row})], t, code)

EnsureDimensions(c) ==
    /\ ld[c].pc = "dims"
    /\ \E code \in DimTodo(ld[c]) :
          /\ ld[c].waiting \in {<<>>, <<DimTable(ld[c]), code>>}
          /\ ld[c].waiting # <<>> => ~HeldByOther(c, ld[c].waiting[1],
                                        ConflictKey(ld[c].waiting[1],
                                                    DimRow(ld[c].waiting[1], code)))
          /\ ld' = [ld EXCEPT ![c] = EnsureOne(c, ld[c], code)]
    /\ UNCHANGED <<db, pool, faults, runVars, calls, pureVars>>

\* batch = records[i:i + batch_size]
Batch(f) == SubSeq(f.records, f.i + 1, Min(f.i + BatchSize, Len(f.records)))

\* Mutant: every record attempted counts as inserted.
RecordDoneCountsAttempts(f, rowcount) ==
    LET g == [f EXCEPT !.waiting = <<>>,
                       !.batch_inserted = @ + 1,
                       !.j = @ + 1]
    IN  IF g.j < Len(Batch(f)) THEN g
        ELSE [g EXCEPT !.inserted = @ + g.batch_inserted,
                       !.batch_inserted = 0, !.j = 0, !.i = @ + BatchSize,
                       !.pc = IF f.i + BatchSize < Len(f.records) THEN "facts" ELSE "commit"]

\* Mutant: the warning is logged only when a dimension row of the record is missing.
RecordDoneWarnsOnMissOnly(f, rowcount) ==
    LET r == Batch(f)[f.j + 1]
        miss == \E t \in Tables \ {"fact_ida"} :
                    ConflictKey(t, DimRow(t, CASE t = "dim_tempo" -> r.ano_mes
                                               [] t = "dim_grupo_economico" -> r.grupo_economico
                                               [] t = "dim_servico" -> r.servico
                                               [] t = "dim_variavel" -> r.variavel))
                        \notin KeysIn(db[t], t)
        g == [f EXCEPT !.waiting = <<>>,
                       !.warnings = IF rowcount = 0 /\ miss
                                    THEN Append(@, generate_hash(r))
                                    ELSE @,
                       !.batch_inserted = @ + rowcount,
                       !.j = @ + 1]
    IN  IF g.j < Len(Batch(f)) THEN g
        ELSE [g EXCEPT !.inserted = @ + g.batch_inserted,
                       !.batch_inserted = 0, !.j = 0, !.i = @ + BatchSize,
                       !.pc = IF f.i + BatchSize < Len(f.records) THEN "facts" ELSE "commit"]

\* The end of one iteration of the loop of _insert_batch, and of the batch loop of load.
RecordDone(f, rowcount) ==
    LET g == [f EXCEPT !.waiting = <<>>,
                       !.warnings = IF rowcount = 0
                                    THEN Append(@, generate_hash(Batch(f)[f.j + 1]))
                                    ELSE @,
                       !.batch_inserted = @ + rowcount,
                       !.j = @ + 1]
    IN  IF g.j < Len(Batch(f)) THEN g
        ELSE [g EXCEPT !.inserted = @ + g.batch_inserted,
                       !.batch_inserted = 0, !.j = 0, !.i = @ + BatchSize,
                       !.pc = IF f.i + BatchSize < Len(f.records) THEN "facts" ELSE "commit"]

\* Mutant: an insert that affects no row raises.
InsertOneRaisesOnNoRow(c, f) ==
    LET r == Batch(f)[f.j + 1]
        row == FactRow(r)
        out == IF JoinCount(Visible(c), r) = 0 THEN "norows"
               ELSE InsertOutcome(c, "fact_ida", row)
    IN  CASE out = "norows" -> [f EXCEPT !.pc = "except", !.exc = "NoMatch"]
          [] out = "conflict" -> RecordDone(f, 0)
          [] out = "wait" -> [f EXCEPT !.waiting = <<"fact_ida", row.hash_registro>>,
                                       !.waited = TRUE]
          [] out = "insert" ->
               RecordDone([f EXCEPT !.pending["fact_ida"] = @ (+) SetToBag({row})], 1)

\* cursor.execute(insert_query, params) of the record at position j of the batch.
InsertOne(c, f) ==
    LET r == Batch(f)[f.j + 1]
        row == FactRow(r)
        out == IF JoinCount(Visible(c), r) = 0 THEN "norows"
               ELSE InsertOutcome(c, "fact_ida", row)
    IN  CASE out = "norows" -> RecordDone(f, 0)
          [] out = "conflict" -> RecordDone(f, 0)
          [] out = "wait" -> [f EXCEPT !.waiting = <<"fact_ida", row.hash_registro>>,
                                       !.waited = TRUE]
          [] out = "insert" ->
               RecordDone([f EXCEPT !.pending["fact_ida"] = @ (+) SetToBag({row})], 1)

InsertBatch(c) ==
    /\ ld[c].pc = "facts"
    /\ ld[c].waiting # <<>> => ~HeldByOther(c, "fact_ida", ld[c].waiting[2])
    /\ ld' = [ld EXCEPT ![c] = InsertOne(c, ld[c])]
    /\ UNCHANGED <<db, pool, faults, runVars, calls, pureVars>>

\* A statement or the commit fails in the database (connection lost, timeout,
\* constraint): the exception reaches the except clause of load.
DatabaseError(c) ==
    /\ ld[c].pc \in {"dims", "facts", "commit"}
    /\ ld[c].waiting = <<>>
    /\ faults < MaxFaults
    /\ faults' = faults + 1
    /\ ld' = [ld EXCEPT ![c].pc = "except", ![c].exc = "DatabaseError",
                        ![c].failed_batch = IF ld[c].pc = "facts"
                                            THEN ld[c].i \div BatchSize + 1 ELSE 0]
    /\ UNCHANGED <<db, pool, runVars, calls, pureVars>>

\* Mutant: the commit keeps the fact rows of the transaction and drops its
\* dimension rows.
CommitStoreFactsOnly(c) ==
    [t \in Tables |-> IF t = "fact_ida" THEN db[t] (+) ld[c].pending[t] ELSE db[t]]

\* conn.commit(): the rows of the transaction become the committed ones.
CommitStore(c) == StorePlus(db, ld[c].pending)

\* Mutant: the except clause commits what the transaction had inserted.
RollbackStoreKeepsRows(c) == StorePlus(db, ld[c].pending)

\* conn.rollback(): the rows of the transaction are dropped.
RollbackStore(c) == db

Commit(c) ==
    /\ ld[c].pc = "commit"
    /\ db' = CommitStore(c)
    /\ ld' = [ld EXCEPT ![c].pc = "returned", ![c].ret = ld[c].inserted,
                        ![c].pending = EmptyStore]
    /\ pool' = PutConn(c)
    /\ UNCHANGED <<faults, runVars, calls, pureVars>>

Rollback(c) ==
    /\ ld[c].pc = "except"
    /\ db' = RollbackStore(c)
    /\ ld' = [ld EXCEPT ![c].pc = "raised", ![c].pending = EmptyStore]
    /\ pool' = PutConn(c)
    /\ UNCHANGED <<faults, runVars, calls, pureVars>>

Load(c) == EnsureDimensions(c) \/ InsertBatch(c) \/ DatabaseError(c) \/ Commit(c)
               \/ Rollback(c)

(***************************************************************************)
(* A caller of load: a sequence of load calls on one loader                *)
(***************************************************************************)

\* The record lists load is called with: none, more than one batch with a repeated
\* hash, records of stored dimensions, and a record strptime rejects.
LoadInputs == {<<>>, Cycle(BatchSize + 2), <<R2, R4>>, <<R4, RBad>>}

NoStats == [recursos_processados |-> 0, registros_extraidos |-> 0,
            registros_transformados |-> 0, registros_carregados |-> 0,
            erros |-> <<>>]

InitLoad ==
    /\ db = EmptyStore
    /\ ld = [c \in Loaders |-> LdIdle]
    /\ pool = [c \in Loaders |-> [open |-> c = 1, out |-> 0]]
    /\ faults = 0
    /\ pc = "caller"
    /\ recursos = 0
    /\ idx = 0
    /\ all_records = <<>>
    /\ stats = NoStats
    /\ fetches = 0
    /\ outcomes = <<>>
    /\ health = "unchecked"
    /\ final_flush = "none"
    /\ exit_status = -1
    /\ calls = <<>>
    /\ sheet = NoSheet
    /\ hashed = NoHashed

CallLoad ==
    /\ pc = "caller"
    /\ Len(calls) < MaxLoads
    /\ \E records \in LoadInputs :
          /\ ld' = [ld EXCEPT ![1] = StartLoad(records)]
          /\ pool' = GetConn(1, records)
    /\ pc' = "in_load"
    /\ UNCHANGED <<db, faults, recursos, idx, all_records, stats, fetches, outcomes,
                   health, final_flush, exit_status, calls, pureVars>>

LoadEnds ==
    /\ pc = "in_load"
    /\ ld[1].pc \in {"returned", "raised"}
    /\ calls' = Append(calls, [records |-> ld[1].records,
                               raised |-> ld[1].pc = "raised",
                               exc |-> ld[1].exc,
                               ret |-> ld[1].ret,
                               failed_batch |-> ld[1].failed_batch,
                               failed_j |-> ld[1].j,
                               warnings |-> ld[1].warnings,
                               before |-> ld[1].before,
                               after |-> db])
    /\ ld' = [ld EXCEPT ![1] = LdIdle]
    /\ pc' = "caller"
    /\ UNCHANGED <<db, pool, faults, recursos, idx, all_records, stats, fetches,
                   outcomes, health, final_flush, exit_status, pureVars>>

NextLoad == CallLoad \/ LoadEnds \/ Load(1)

SpecLoad == InitLoad /\ [][NextLoad]_vars

(***************************************************************************)
(* ETLPipeline.run and main                                                *)
(***************************************************************************)

\* What download, extract and transform make of a resource that passes them: the
\* rows of the sheet and the records transform returns.
ResourceContents ==
    {[kind |-> "well_formed", linhas |-> 1, records |-> <<R1, R2>>],
     [kind |-> "well_formed", linhas |-> 5 * BatchSize, records |-> Cycle(5 * BatchSize)],
     [kind |-> "bad_records", linhas |-> 2, records |-> <<R4, RBad>>]}

Outcome(kind, records) == [kind |-> kind, records |-> records, flush |-> "none"]

\* Mutant: the message does not name the resource.
ErrorMsgAnonymous(recurso, e) == [recurso |-> 0, e |-> e]

\* error_msg = f"Erro ao processar {recurso.titulo}: {str(e)}"
ErrorMsg(recurso, e) == [recurso |-> recurso, e |-> e]

Init ==
    /\ db = EmptyStore
    /\ ld = [c \in Loaders |-> LdIdle]
    /\ pool = [c \in Loaders |-> [open |-> FALSE, out |-> 0]]
    /\ faults = 0
    /\ pc = "start"
    /\ recursos = 0
    /\ idx = 0
    /\ all_records = <<>>
    /\ stats = NoStats
    /\ fetches = 0
    /\ outcomes = <<>>
    /\ health = "unchecked"
    /\ final_flush = "none"
    /\ exit_status = -1
    /\ calls = <<>>
    /\ sheet = NoSheet
    /\ hashed = NoHashed

\* Mutant: the result of the health check is not looked at.
AfterHealthCheckIgnored(ok) == "api"

\* if not self.check_database_health(): return stats
AfterHealthCheck(ok) == IF ok THEN "api" ELSE "returned"

CheckDatabaseHealth ==
    /\ pc = "start"
    /\ \E ok \in BOOLEAN :
          /\ health' = (IF ok THEN "ok" ELSE "failed")
          /\ pc' = AfterHealthCheck(ok)
    /\ UNCHANGED <<db, ld, pool, faults, recursos, idx, all_records, stats, fetches,
                   outcomes, final_flush, exit_status, calls, pureVars>>

\* dados = self._requisicao_api(...): None, or the resources that pass the filter.
RequisicaoApi ==
    /\ pc = "api"
    /\ fetches' = fetches + 1
    /\ \/ /\ pc' = "returned"
          /\ UNCHANGED recursos
       \/ \E n \in 0..MaxRecursos :
             /\ recursos' = n
             /\ pc' = "enter"
    /\ UNCHANGED <<db, ld, pool, faults, idx, all_records, stats, outcomes, health,
                   final_flush, exit_status, calls, pureVars>>

\* with self.loader: __enter__ opens the pool, or fails to connect.
LoaderEnter ==
    /\ pc = "enter"
    /\ \/ /\ pool' = [pool EXCEPT ![1].open = TRUE]
          /\ pc' = "loop"
          /\ UNCHANGED faults
       \/ /\ faults < MaxFaults
          /\ faults' = faults + 1
          /\ pc' = "raised"
          /\ UNCHANGED pool
    /\ UNCHANGED <<db, ld, recursos, idx, all_records, stats, fetches, outcomes, health,
                   final_flush, exit_status, calls, pureVars>>

\* _baixar_arquivo_memoria returns None: continue.
DownloadFails ==
    /\ pc = "loop"
    /\ idx < recursos
    /\ fetches' = fetches + 1
    /\ outcomes' = Append(outcomes, Outcome("download_failed", <<>>))
    /\ idx' = idx + 1
    /\ UNCHANGED <<db, ld, pool, faults, pc, recursos, all_records, stats, health,
                   final_flush, exit_status, calls, pureVars>>

\* extract raises: the except clause of the loop body.
ExtractFails ==
    /\ pc = "loop"
    /\ idx < recursos
    /\ fetches' = fetches + 1
    /\ outcomes' = Append(outcomes, Outcome("extract_failed", <<>>))
    /\ stats' = [stats EXCEPT !.erros = Append(@, ErrorMsg(idx + 1, "extract"))]
    /\ idx' = idx + 1
    /\ UNCHANGED <<db, ld, pool, faults, pc, recursos, all_records, health,
                   final_flush, exit_status, calls, pureVars>>

\* transform raises, after registros_extraidos was counted.
TransformFails ==
    /\ pc = "loop"
    /\ idx < recursos
    /\ fetches' = fetches + 1
    /\ outcomes' = Append(outcomes, Outcome("transform_failed", <<>>))
    /\ stats' = [stats EXCEPT !.registros_extraidos = @ + 1,
                              !.erros = Append(@, ErrorMsg(idx + 1, "transform"))]
    /\ idx' = idx + 1
    /\ UNCHANGED <<db, ld, pool, faults, pc, recursos, all_records, health,
                   final_flush, exit_status, calls, pureVars>>

\* len(all_records) >= self.config.batch_size * 5
FlushDue(buffer) == Len(buffer) >= BatchSize * 5

\* The loop body up to the flush test: download, extract, transform, extend.
Transformed ==
    /\ pc = "loop"
    /\ idx < recursos
    /\ fetches' = fetches + 1
    /\ \E content \in ResourceContents :
          LET buffer == all_records \o content.records
              counted == [stats EXCEPT
                            !.registros_extraidos = @ + content.linhas,
                            !.registros_transformados = @ + Len(content.records)]
          IN  /\ outcomes' = Append(outcomes, Outcome(content.kind, content.records))
              /\ all_records' = buffer
              /\ IF FlushDue(buffer)
                 THEN /\ ld' = [ld EXCEPT ![1] = StartLoad(buffer)]
                      /\ pool' = GetConn(1, buffer)
                      /\ pc' = "mid_load"
                      /\ stats' = counted
                      /\ UNCHANGED idx
                 ELSE /\ stats' = [counted EXCEPT !.recursos_processados = @ + 1]
                      /\ idx' = idx + 1
                      /\ UNCHANGED <<ld, pool, pc>>
    /\ UNCHANGED <<db, faults, recursos, health, final_flush, exit_status, calls, pureVars>>

\* loaded = self.loader.load(all_records) returns inside the loop.
MidLoadReturns ==
    /\ pc = "mid_load"
    /\ ld[1].pc = "returned"
    /\ stats' = [stats EXCEPT !.registros_carregados = @ + ld[1].ret,
                              !.recursos_processados = @ + 1]
    /\ all_records' = <<>>
    /\ outcomes' = [outcomes EXCEPT ![idx + 1].flush = "loaded"]
    /\ idx' = idx + 1
    /\ ld' = [ld EXCEPT ![1] = LdIdle]
    /\ pc' = "loop"
    /\ UNCHANGED <<db, pool, faults, recursos, fetches, health, final_flush,
                   exit_status, calls, pureVars>>

\* Mutant: the exception of the final load is swallowed like one of the loop.
AfterLoadErrorSwallowed(where) == IF where = "mid" THEN "loop" ELSE "returned"

\* Where run goes when load raises: the except clause of the loop body goes on with
\* the next resource; the final load is under no try.
AfterLoadError(where) == IF where = "mid" THEN "loop" ELSE "raised"

\* load raises inside the loop: the except clause records the error.
MidLoadRaises ==
    /\ pc = "mid_load"
    /\ ld[1].pc = "raised"
    /\ stats' = [stats EXCEPT !.erros = Append(@, ErrorMsg(idx + 1, ld[1].exc))]
    /\ outcomes' = [outcomes EXCEPT ![idx + 1].flush = "failed"]
    /\ idx' = idx + 1
    /\ ld' = [ld EXCEPT ![1] = LdIdle]
    /\ pc' = AfterLoadError("mid")
    /\ UNCHANGED <<db, pool, faults, recursos, all_records, fetches, health,
                   final_flush, exit_status, calls, pureVars>>

\* After the loop: if all_records: load; else __exit__ and the return of stats.
FinalFlush ==
    /\ pc = "loop"
    /\ idx = recursos
    /\ \/ /\ all_records # <<>>
          /\ ld' = [ld EXCEPT ![1] = StartLoad(all_records)]
          /\ pool' = GetConn(1, all_records)
          /\ final_flush' = "loading"
          /\ pc' = "final_load"
       \/ /\ all_records = <<>>
          /\ pool' = [pool EXCEPT ![1].open = FALSE]
          /\ pc' = "returned"
          /\ UNCHANGED <<ld, final_flush>>
    /\ UNCHANGED <<db, faults, recursos, idx, all_records, stats, fetches, outcomes,
                   health, exit_status, calls, pureVars>>

FinalLoadReturns ==
    /\ pc = "final_load"
    /\ ld[1].pc = "returned"
    /\ stats' = [stats EXCEPT !.registros_carregados = @ + ld[1].ret]
    /\ final_flush' = "loaded"
    /\ pool' = [pool EXCEPT ![1].open = FALSE]
    /\ ld' = [ld EXCEPT ![1] = LdIdle]
    /\ pc' = "returned"
    /\ UNCHANGED <<db, faults, recursos, idx, all_records, fetches, outcomes, health,
                   exit_status, calls, pureVars>>

\* The final load raises: __exit__ closes the pool and the exception leaves run.
FinalLoadRaises ==
    /\ pc = "final_load"
    /\ ld[1].pc = "raised"
    /\ final_flush' = "failed"
    /\ pool' = [pool EXCEPT ![1].open = FALSE]
    /\ ld' = [ld EXCEPT ![1] = LdIdle]
    /\ pc' = AfterLoadError("final")
    /\ UNCHANGED <<db, faults, recursos, idx, all_records, stats, fetches, outcomes,
                   health, exit_status, calls, pureVars>>

\* Mutant: a run that loaded nothing exits 1.
ExitStatusNothingLoaded(result, st) ==
    IF result = "raised" THEN 1
    ELSE IF st.erros # <<>> \/ st.registros_carregados = 0 THEN 1 ELSE 0

\* main: sys.exit(1) on errors or on an exception of run, sys.exit(0) otherwise.
ExitStatus(result, st) ==
    IF result = "raised" THEN 1 ELSE IF st.erros # <<>> THEN 1 ELSE 0

Main ==
    /\ pc \in {"returned", "raised"}
    /\ exit_status = -1
    /\ exit_status' = ExitStatus(pc, stats)
    /\ UNCHANGED <<db, ld, pool, faults, pc, recursos, idx, all_records, stats, fetches,
                   outcomes, health, final_flush, calls, pureVars>>

Next ==
    \/ CheckDatabaseHealth \/ RequisicaoApi \/ LoaderEnter
    \/ DownloadFails \/ ExtractFails \/ TransformFails \/ Transformed
    \/ MidLoadReturns \/ MidLoadRaises
    \/ FinalFlush \/ FinalLoadReturns \/ FinalLoadRaises
    \/ Main
    \/ Load(1)

Spec == Init /\ [][Next]_vars

(***************************************************************************)
(* _insert_batch called on a cursor, on a store that may lack dimension    *)
(* rows                                                                    *)
(***************************************************************************)

DimCode(t, r) ==
    CASE t = "dim_tempo" -> r.ano_mes
      [] t = "dim_grupo_economico" -> r.grupo_economico
      [] t = "dim_servico" -> r.servico
      [] t = "dim_variavel" -> r.variavel

\* The store holding the dimension rows of the records in ensured and the fact rows
\* of the records in loaded.
StoreOf(ensured, loaded) ==
    [t \in Tables |->
        IF t = "fact_ida" THEN SetToBag({FactRow(r) : r \in loaded})
        ELSE SetToBag({DimRow(t, DimCode(t, r)) : r \in ensured})]

BatchStores ==
    {StoreOf(ensured, loaded) : ensured \in SUBSET {R1, R2, R4}, loaded \in {{}, {R2}}}

\* The batches of at most batch_size records.
BatchInputs ==
    UNION {[1..n -> {R1, R2, R3, R4}] : n \in 1..BatchSize}

InitBatch ==
    /\ db \in {store \in BatchStores :
                  \A row \in BagToSet(store["fact_ida"]) : JoinCount(store, R2) > 0}
    /\ \E batch \in BatchInputs :
          ld = [c \in Loaders |->
                   IF c = 1
                   THEN [LdIdle EXCEPT !.pc = "facts", !.records = batch, !.before = db]
                   ELSE LdIdle]
    /\ pool = [c \in Loaders |-> [open |-> c = 1, out |-> IF c = 1 THEN 1 ELSE 0]]
    /\ faults = 0
    /\ pc = "insert_batch"
    /\ recursos = 0
    /\ idx = 0
    /\ all_records = <<>>
    /\ stats = NoStats
    /\ fetches = 0
    /\ outcomes = <<>>
    /\ health = "unchecked"
    /\ final_flush = "none"
    /\ exit_status = -1
    /\ calls = <<>>
    /\ sheet = NoSheet
    /\ hashed = NoHashed

NextBatch == InsertBatch(1)

SpecBatch == InitBatch /\ [][NextBatch]_vars

(***************************************************************************)
(* Two loads running at once, each on its own connection                   *)
(***************************************************************************)

ConcInputs == {<<R1, R2>>, <<R2, R4, R1>>, <<R4, R3>>}

InitConc ==
    /\ db = EmptyStore
    /\ \E first \in ConcInputs, second \in ConcInputs :
          ld = [c \in Loaders |-> [StartLoad(IF c = 1 THEN first ELSE second)
                                      EXCEPT !.before = EmptyStore]]
    /\ pool = [c \in Loaders |-> [open |-> TRUE, out |-> 1]]
    /\ faults = 0
    /\ pc = "concurrent"
    /\ recursos = 0
    /\ idx = 0
    /\ all_records = <<>>
    /\ stats = NoStats
    /\ fetches = 0
    /\ outcomes = <<>>
    /\ health = "unchecked"
    /\ final_flush = "none"
    /\ exit_status = -1
    /\ calls = <<>>
    /\ sheet = NoSheet
    /\ hashed = NoHashed

Blocked(c) ==
    /\ ld[c].waiting # <<>>
    /\ HeldByOther(c, ld[c].waiting[1],
                   IF ld[c].waiting[1] = "fact_ida" THEN ld[c].waiting[2]
                   ELSE ConflictKey(ld[c].waiting[1],
                                    DimRow(ld[c].waiting[1], ld[c].waiting[2])))

\* Both transactions wait for a row of the other: the database ends one of them
\* with an error.
DeadlockDetected(c) ==
    /\ \A d \in Loaders : ld[d].pc \in {"dims", "facts"} /\ Blocked(d)
    /\ ld' = [ld EXCEPT ![c].pc = "except", ![c].exc = "DeadlockDetected",
                        ![c].waiting = <<>>]
    /\ UNCHANGED <<db, pool, faults, runVars, calls, pureVars>>

NextConc ==
    \E c \in Loaders :
        \/ EnsureDimensions(c) \/ InsertBatch(c) \/ Commit(c) \/ Rollback(c)
        \/ DeadlockDetected(c)

SpecConc == InitConc /\ [][NextConc]_vars

(***************************************************************************)
(* DataRecord.generate_hash on two records, and the load of the two        *)
(***************************************************************************)

\* Field values of the records hashed: group and variable are free text of the
\* sheet, which may hold the separator of the hashed string.
HashPeriods == {"2018-01-01", "2018-02-01"}

HashGrupos == {"A", "A|SMP|B"}

HashServicos == {"SMP", "SCM"}

HashVariaveis == {"C", "B|SMP|C"}

HashValores == {85, 700}

HashRecords(origins) ==
    {DataRecord(am, g, s, v, val, o[1], o[2]) :
        am \in HashPeriods, g \in HashGrupos, s \in HashServicos,
        v \in HashVariaveis, val \in HashValores, o \in origins}

InitHash ==
    /\ db = EmptyStore
    /\ ld = [c \in Loaders |-> LdIdle]
    /\ pool = [c \in Loaders |-> [open |-> c = 1, out |-> 0]]
    /\ faults = 0
    /\ pc = "hashing"
    /\ recursos = 0
    /\ idx = 0
    /\ all_records = <<>>
    /\ stats = NoStats
    /\ fetches = 0
    /\ outcomes = <<>>
    /\ health = "unchecked"
    /\ final_flush = "none"
    /\ exit_status = -1
    /\ calls = <<>>
    /\ sheet = NoSheet
    /\ \E a \in {r \in HashRecords({<<"SMP_2018.ods", 0>>}) :
                      r.ano_mes = "2018-01-01" /\ r.servico = "SMP" /\ r.valor = 85},
          b \in HashRecords({<<"SMP_2018.ods", 0>>, <<"SMP_2019.ods", 3>>}) :
          hashed = [pc |-> "new", a |-> a, b |-> b, content_a |-> "", content_b |-> "",
                    hash_a |-> <<>>, hash_b |-> <<>>, ret |-> -1]

\* record.generate_hash() of both records.
GenerateHashes ==
    /\ hashed.pc = "new"
    /\ hashed' = [hashed EXCEPT !.pc = "hashed",
                                !.content_a = HashContent(hashed.a),
                                !.content_b = HashContent(hashed.b),
                                !.hash_a = generate_hash(hashed.a),
                                !.hash_b = generate_hash(hashed.b)]
    /\ UNCHANGED <<db, ld, pool, faults, runVars, calls, sheet>>

\* loader.load([a, b]) on the empty store.
LoadBoth ==
    /\ hashed.pc = "hashed"
    /\ ld' = [ld EXCEPT ![1] = StartLoad(<<hashed.a, hashed.b>>)]
    /\ pool' = GetConn(1, <<hashed.a, hashed.b>>)
    /\ hashed' = [hashed EXCEPT !.pc = "loading"]
    /\ UNCHANGED <<db, faults, runVars, calls, sheet>>

LoadBothEnds ==
    /\ hashed.pc = "loading"
    /\ ld[1].pc \in {"returned", "raised"}
    /\ hashed' = [hashed EXCEPT !.pc = IF ld[1].pc = "returned" THEN "loaded"
                                       ELSE "load_failed",
                                !.ret = ld[1].ret]
    /\ ld' = [ld EXCEPT ![1] = LdIdle]
    /\ UNCHANGED <<db, pool, faults, runVars, calls, sheet>>

NextHash == GenerateHashes \/ LoadBoth \/ LoadBothEnds \/ Load(1)

SpecHash == InitHash /\ [][NextHash]_vars

(***************************************************************************)
(* Python text operations used by the extractor and the transformer        *)
(***************************************************************************)

Char(s, i) == SubSeq(s, i, i)

Digits == <<"0", "1", "2", "3", "4", "5", "6", "7", "8", "9">>

IsDigit(c) == \E d \in 1..10 : Digits[d] = c

DigitValue(c) == (CHOOSE d \in 1..10 : Digits[d] = c) - 1

Whitespace == {" ", "\t"}

LowerCase == <<"a", "b", "c", "d", "e", "f", "g", "h", "i", "j", "k", "l", "m",
               "n", "o", "p", "q", "r", "s", "t", "u", "v", "w", "x", "y", "z">>

UpperCase == <<"A", "B", "C", "D", "E", "F", "G", "H", "I", "J", "K", "L", "M",
               "N", "O", "P", "Q", "R", "S", "T", "U", "V", "W", "X", "Y", "Z">>

\* str.lstrip(), str.rstrip(), str.strip()
RECURSIVE lstrip(_)
lstrip(s) ==
    IF Len(s) > 0 /\ Char(s, 1) \in Whitespace THEN lstrip(SubSeq(s, 2, Len(s))) ELSE s

RECURSIVE rstrip(_)
rstrip(s) ==
    IF Len(s) > 0 /\ Char(s, Len(s)) \in Whitespace
    THEN rstrip(SubSeq(s, 1, Len(s) - 1)) ELSE s

strip(s) == rstrip(lstrip(s))

\* str.upper()
RECURSIVE upper(_)
upper(s) ==
    IF Len(s) = 0 THEN ""
    ELSE LET c == Char(s, 1)
             u == IF \E k \in 1..26 : LowerCase[k] = c
                  THEN UpperCase[CHOOSE k \in 1..26 : LowerCase[k] = c]
                  ELSE c
         IN  u \o upper(SubSeq(s, 2, Len(s)))

\* sub in s
Contains(s, sub) ==
    \E i \in 1..(Len(s) - Len(sub) + 1) : SubSeq(s, i, i + Len(sub) - 1) = sub

\* re.search(r'\d{4}-\d{2}', s)
SearchYearMonth(s) ==
    \E i \in 1..(Len(s) - 6) :
        /\ \A k \in 0..3 : IsDigit(Char(s, i + k))
        /\ Char(s, i + 4) = "-"
        /\ \A k \in 5..6 : IsDigit(Char(s, i + k))

\* s.replace(old, new) for a one-character old
RECURSIVE replace(_, _, _)
replace(s, old, new) ==
    IF Len(s) = 0 THEN ""
    ELSE (IF Char(s, 1) = old THEN new ELSE Char(s, 1))
             \o replace(SubSeq(s, 2, Len(s)), old, new)

\* s.split(sep) for a one-character sep: the parts, in order
RECURSIVE split(_, _)
split(s, sep) ==
    IF \A i \in 1..Len(s) : Char(s, i) # sep THEN <<s>>
    ELSE LET i == CHOOSE k \in 1..Len(s) :
                      Char(s, k) = sep /\ \A m \in 1..(k - 1) : Char(s, m) # sep
         IN  <<SubSeq(s, 1, i - 1)>> \o split(SubSeq(s, i + 1, Len(s)), sep)

\* s.split(): the runs of characters between whitespace
RECURSIVE words(_)
words(s) ==
    LET t == lstrip(s)
    IN  IF Len(t) = 0 THEN <<>>
        ELSE IF \A i \in 1..Len(t) : Char(t, i) \notin Whitespace THEN <<t>>
        ELSE LET i == CHOOSE k \in 1..Len(t) :
                          Char(t, k) \in Whitespace
                              /\ \A m \in 1..(k - 1) : Char(t, m) \notin Whitespace
             IN  <<SubSeq(t, 1, i - 1)>> \o words(SubSeq(t, i, Len(t)))

\* ' '.join(parts)
RECURSIVE join(_)
join(parts) ==
    IF Len(parts) = 0 THEN ""
    ELSE IF Len(parts) = 1 THEN parts[1]
    ELSE parts[1] \o " " \o join(Tail(parts))

\* The value of a run of decimal digits.
RECURSIVE DigitsValue(_)
DigitsValue(s) ==
    IF Len(s) = 0 THEN 0
    ELSE DigitsValue(SubSeq(s, 1, Len(s) - 1)) * 10 + DigitValue(Char(s, Len(s)))

AllDigits(s) == \A i \in 1..Len(s) : IsDigit(Char(s, i))

\* An optional sign in front of t: the sign and what follows it.
Signed(t) ==
    IF Len(t) > 0 /\ Char(t, 1) \in {"+", "-"}
    THEN [sign |-> IF Char(t, 1) = "-" THEN -1 ELSE 1, body |-> SubSeq(t, 2, Len(t))]
    ELSE [sign |-> 1, body |-> t]

\* int(s): surrounding whitespace, an optional sign, decimal digits. ValueError
\* (ok false) otherwise. Digit groups joined by underscores are not in the texts
\* of the model.
int(s) ==
    LET sg == Signed(strip(s))
    IN  IF Len(sg.body) > 0 /\ AllDigits(sg.body)
        THEN [ok |-> TRUE, val |-> sg.sign * DigitsValue(sg.body)]
        ELSE [ok |-> FALSE, val |-> 0]

\* float(s) for a text: surrounding whitespace, an optional sign, digits with an
\* optional point. The value is kept in hundredths; ValueError (ok false) otherwise.
\* Exponents, inf, nan, underscores and a third decimal are not in the texts of
\* the model.
float(s) ==
    LET sg == Signed(strip(s))
        parts == split(sg.body, ".")
        ip == parts[1]
        fp == IF Len(parts) = 2 THEN parts[2] ELSE ""
        cents == IF Len(fp) = 0 THEN 0
                 ELSE IF Len(fp) = 1 THEN DigitsValue(fp) * 10
                 ELSE DigitsValue(fp)
    IN  IF /\ Len(parts) <= 2
           /\ Len(ip) + Len(fp) > 0
           /\ AllDigits(ip)
           /\ AllDigits(fp)
           /\ Len(fp) <= 2
        THEN [ok |-> TRUE, val |-> sg.sign * (DigitsValue(ip) * 100 + cents)]
        ELSE [ok |-> FALSE, val |-> 0]

(***************************************************************************)
(* Cells of a sheet as pandas reads them                                   *)
(***************************************************************************)

\* A cell is empty (NaN), a text, a float (in hundredths) or a Timestamp.
NaN == [kind |-> "nan", text |-> "", num |-> 0]

Str(t) == [kind |-> "str", text |-> t, num |-> 0]

Num(v) == [kind |-> "num", text |-> "", num |-> v]

\* The text of a Timestamp is what str() gives for it.
Ts(y, m) == [kind |-> "ts", text |-> ToString(y) \o "-" \o Pad2(m) \o "-01 00:00:00",
             num |-> 0]

\* pd.isna(v)
isna(v) == v.kind = "nan"

\* str(v)
str(v) ==
    CASE v.kind = "nan" -> "nan"
      [] v.kind = "str" -> v.text
      [] v.kind = "num" -> FloatRepr(v.num)
      [] v.kind = "ts" -> v.text

(***************************************************************************)
(* ODSExtractor: header location, read with header, forward fill           *)
(***************************************************************************)

\* range(min(20, len(df_raw)))
HeaderScanLimit == 20

\* The index returned when no row matches.
HeaderFallback == 8

\* Mutant: only the GRUPO and VARIAVEL labels make a header row.
RowMatchesLabelsOnly(row) ==
    LET normalized == [k \in 1..Len(row) |-> upper(strip(str(row[k])))]
    IN  /\ \E k \in 1..Len(row) : Contains(normalized[k], "GRUPO")
        /\ \E k \in 1..Len(row) : Contains(normalized[k], "VARIAVEL")

\* One iteration of the scan: the row is the header when its upper-cased, trimmed
\* cells hold GRUPO and VARIAVEL, or when one of them holds a YYYY-MM pattern.
RowMatches(row) ==
    LET normalized == [k \in 1..Len(row) |-> upper(strip(str(row[k])))]
    IN  \/ /\ \E k \in 1..Len(row) : Contains(normalized[k], "GRUPO")
           /\ \E k \in 1..Len(row) : Contains(normalized[k], "VARIAVEL")
        \/ \E k \in 1..Len(row) : SearchYearMonth(normalized[k])

\* The column labels pandas makes of the header row: an empty cell is named after
\* its position.
Labels(row) ==
    [k \in 1..Len(row) |->
        IF isna(row[k]) THEN Str("Unnamed: " \o ToString(k - 1)) ELSE row[k]]

\* Mutant: the group column is left as it was read.
ffillNothing(rows, k) == rows

\* df[column k].ffill(): an empty cell takes the value of the nearest row above
\* whose cell is not empty.
RECURSIVE ffill(_, _)
ffill(rows, k) ==
    IF Len(rows) <= 1 THEN rows
    ELSE LET above == ffill(SubSeq(rows, 1, Len(rows) - 1), k)
             last == rows[Len(rows)]
         IN  Append(above,
                    IF isna(last[k]) THEN [last EXCEPT ![k] = above[Len(above)][k]]
                    ELSE last)

(***************************************************************************)
(* DataTransformer                                                         *)
(***************************************************************************)

\* _is_month_column: any exception gives False.
is_month_column(col) ==
    LET col_str == strip(str(col))
    IN  IF Len(col_str) = 7 /\ Char(col_str, 5) = "-"
        THEN LET parts == split(col_str, "-")
             IN  /\ Len(parts) = 2
                 /\ int(parts[1]).ok
                 /\ int(parts[2]).ok
                 /\ 2000 <= int(parts[1]).val
                 /\ int(parts[1]).val <= 2030
                 /\ 1 <= int(parts[2]).val
                 /\ int(parts[2]).val <= 12
        ELSE col.kind = "ts"

\* The entries of group_mapping and of VARIABLE_MAPPING whose keys are plain ASCII
\* (the keys with accented letters are not among the texts of the model).
group_mapping ==
    [k \in {"ALGAR TELECOM S/A", "CLARO S.A.", "TIM S.A.", "OI S.A."} |->
        CASE k = "ALGAR TELECOM S/A" -> "ALGAR"
          [] k = "CLARO S.A." -> "CLARO"
          [] k = "TIM S.A." -> "TIM"
          [] k = "OI S.A." -> "OI"]

VARIABLE_MAPPING ==
    [k \in {"Indicador de Desempenho no Atendimento (IDA)", "Quantidade de reabertas",
            "Quantidade de Respondidas", "Taxa de Reabertas"} |->
        CASE k = "Indicador de Desempenho no Atendimento (IDA)" -> "IDA"
          [] k = "Quantidade de reabertas" -> "QTD_REABERTAS"
          [] k = "Quantidade de Respondidas" -> "QTD_RESPONDIDAS"
          [] k = "Taxa de Reabertas" -> "TAXA_REABERTAS"]

\* mapping.get(key, key)
Get(mapping, key) == IF key \in DOMAIN mapping THEN mapping[key] ELSE key

\* _clean_text of a text: strip, collapse whitespace, group_mapping.get(text, text).
clean_text(text) == Get(group_mapping, join(words(strip(text))))

\* _parse_value: ok false stands for None.
parse_value(value) ==
    CASE value.kind = "str" -> float(replace(replace(value.text, ",", "."), "%", ""))
      [] value.kind = "num" -> [ok |-> TRUE, val |-> value.num]
      [] OTHER -> [ok |-> FALSE, val |-> 0]

\* The first two cells of a row as transform reads them.
RowText(cell) ==
    LET t == IF isna(cell) THEN "" ELSE str(cell)
    IN  IF t # "nan" THEN strip(t) ELSE ""

\* ano_mes of a month column.
AnoMes(month_col) ==
    IF month_col.kind = "ts" THEN SubSeq(month_col.text, 1, 10)
    ELSE LET month_str == strip(str(month_col))
         IN  (IF Contains(month_str, " ") THEN split(month_str, " ")[1] ELSE month_str)
                 \o "-01"

\* The body of the month loop for one cell: the records it appends, none or one.
CellRecords(df, i, k) ==
    LET row == df.rows[i]
        valor == row[k]
        valor_float == parse_value(valor)
    IN  IF isna(valor) \/ strip(str(valor)) \in {"-", "", "nan"} THEN <<>>
        ELSE IF ~valor_float.ok THEN <<>>
        ELSE <<DataRecord(AnoMes(df.columns[k]),
                          clean_text(RowText(row[1])),
                          str(row[Len(row) - 1]),
                          Get(VARIABLE_MAPPING, clean_text(RowText(row[2]))),
                          valor_float.val,
                          str(row[Len(row)]),
                          i - 1)>>

RECURSIVE MonthRecords(_, _, _)
MonthRecords(df, i, month_columns) ==
    IF month_columns = <<>> THEN <<>>
    ELSE CellRecords(df, i, Head(month_columns))
             \o MonthRecords(df, i, Tail(month_columns))

\* The body of the row loop of transform for the row at position i.
RowRecords(df, i, month_columns) ==
    IF RowText(df.rows[i][1]) = "" \/ RowText(df.rows[i][2]) = "" THEN <<>>
    ELSE MonthRecords(df, i, month_columns)

\* [col for col in df.columns if self._is_month_column(col)], as positions.
RECURSIVE MonthColumns(_, _)
MonthColumns(columns, k) ==
    IF k > Len(columns) THEN <<>>
    ELSE (IF is_month_column(columns[k]) THEN <<k>> ELSE <<>>)
             \o MonthColumns(columns, k + 1)

(***************************************************************************)
(* extract and transform of one sheet, step by step                        *)
(***************************************************************************)

\* The two extractor implementations of the repository.
Impls == {"etl_ida_sysint", "python_etl_ida"}

\* SHEET_MAPPING of etl_ida_sysint, FILE_MAPPING of python_etl_ida.
SHEET_MAPPING == {"SMP", "SCM", "STFC"}

FILE_MAPPING == {s \o "_" \o ToString(y) \o ".ods" : s \in SHEET_MAPPING, y \in Anos}

\* Rows above the header: n rows, the first of them with a period in its text when
\* dated.
Banners(n, dated) ==
    [k \in 1..n |->
        IF dated /\ k = 1 THEN <<Str("Periodo 2018-01 a 2018-12"), NaN, NaN, NaN>>
        ELSE <<Str("ANATEL"), NaN, NaN, NaN>>]

BannerCounts == {0, 2, 8, 19, 20, 21}

\* Labels of the two value columns of a header row.
MonthLabelPairs ==
    {<<Str("2018-01"), Str("2018-02")>>,
     <<Str("2018-13"), Str("18-01")>>,
     <<Str("1999-01"), Str("2031-01")>>,
     <<Str("2018-+1"), Ts(2018, 2)>>,
     <<Str(" 2018-01"), NaN>>,
     <<Str("Jan"), Str("Fev")>>}

\* Header rows: with the GRUPO and VARIAVEL labels, or with other labels.
HeaderRows ==
    {<<Str(" Grupo Economico "), Str("variavel")>> \o p : p \in MonthLabelPairs}
        \cup {<<Str("Empresa"), Str("Indicador")>> \o p : p \in MonthLabelPairs}

\* Data rows: group, variable label, two value cells.
DataRows ==
    {<<>>,
     <<<<Str("CLARO S.A."), Str("Indicador de Desempenho no Atendimento (IDA)"),
         Str("0,85"), Str("-")>>,
       <<NaN, Str("Taxa de Reabertas"), Str("12,5%"), Str("7.0")>>,
       <<NaN, Str("Outra  variavel "), Num(700), NaN>>,
       <<Str("OI S.A."), Str("TIM S.A."), Str("1%2"), Str("")>>>>,
     <<<<NaN, Str("Taxa de Reabertas"), Str("5"), Str("nan")>>,
       <<Str("  Empresa   Nova "), Str("Quantidade de reabertas"), Str("abc"),
         Str(" 3 ")>>,
       <<NaN, NaN, Str("4"), Str("4")>>,
       <<NaN, Str("v"), Str("%5"), Str("2,5")>>,
       <<Str(" "), Str("v"), Str("1"), Str("1")>>,
       <<NaN, Str("v"), Str("1"), Str("1")>>>>}

\* The raw grids read: banners, a header row or none, data rows.
Grids ==
    {Banners(n, dated) \o h \o d :
        n \in BannerCounts, dated \in BOOLEAN,
        h \in {<<>>} \cup {<<hr>> : hr \in HeaderRows}, d \in DataRows}

SheetStart(impl, metadata, df_raw) ==
    [pc |-> "start", impl |-> impl, metadata |-> metadata, df_raw |-> df_raw,
     idx |-> 0, header_row |-> -1, found |-> FALSE, log |-> <<>>,
     df |-> [columns |-> <<>>, rows |-> <<>>], month_columns |-> <<>>, i |-> 0,
     records |-> <<>>, exc |-> "none"]

InitSheet ==
    /\ db = EmptyStore
    /\ ld = [c \in Loaders |-> LdIdle]
    /\ pool = [c \in Loaders |-> [open |-> FALSE, out |-> 0]]
    /\ faults = 0
    /\ pc = "sheet"
    /\ recursos = 0
    /\ idx = 0
    /\ all_records = <<>>
    /\ stats = NoStats
    /\ fetches = 0
    /\ outcomes = <<>>
    /\ health = "unchecked"
    /\ final_flush = "none"
    /\ exit_status = -1
    /\ calls = <<>>
    /\ hashed = NoHashed
    /\ \E impl \in Impls :
          \/ \E df_raw \in Grids :
                sheet = SheetStart(impl, [servico |-> "SMP", filename |-> "SMP_2018.ods"],
                                   df_raw)
          \/ sheet = SheetStart(impl, [servico |-> "TV", filename |-> "TV_2018.ods"], <<>>)

Log(level, msg, n) == [level |-> level, msg |-> msg, n |-> n]

\* extract up to the first read_excel: ValueError for a service (a file, in
\* python_etl_ida) that has no mapping.
ReadRaw ==
    /\ sheet.pc = "start"
    /\ LET mapped == IF sheet.impl = "etl_ida_sysint"
                     THEN sheet.metadata.servico \in SHEET_MAPPING
                     ELSE sheet.metadata.filename \in FILE_MAPPING
       IN  sheet' = IF mapped THEN [sheet EXCEPT !.pc = "find_header"]
                    ELSE [sheet EXCEPT !.pc = "raised", !.exc = "ValueError"]
    /\ UNCHANGED <<db, ld, pool, faults, runVars, calls, hashed>>

\* _find_header_row, one row of the scan at a time (the same loop is inline in
\* extract of python_etl_ida).
FindHeaderRow ==
    /\ sheet.pc = "find_header"
    /\ sheet' =
          IF sheet.idx < Min(HeaderScanLimit, Len(sheet.df_raw))
          THEN IF RowMatches(sheet.df_raw[sheet.idx + 1])
               THEN [sheet EXCEPT !.pc = "log_header", !.header_row = sheet.idx,
                                  !.found = TRUE]
               ELSE [sheet EXCEPT !.idx = @ + 1]
          ELSE [sheet EXCEPT !.pc = "log_header", !.header_row = HeaderFallback]
    /\ UNCHANGED <<db, ld, pool, faults, runVars, calls, hashed>>

\* What extract logs once the header row is known.
HeaderLog(impl, found, header_row) ==
    IF impl = "python_etl_ida" /\ ~found
    THEN <<Log("WARNING", "Header nao detectado automaticamente, usando linha",
               header_row)>>
    ELSE <<Log("INFO", "Linha de cabecalho encontrada", header_row)>>

LogHeader ==
    /\ sheet.pc = "log_header"
    /\ sheet' = [sheet EXCEPT !.pc = "read",
                              !.log = @ \o HeaderLog(sheet.impl, sheet.found,
                                                     sheet.header_row)]
    /\ UNCHANGED <<db, ld, pool, faults, runVars, calls, hashed>>

\* read_excel(header=header_row), the renaming of the first two columns, the
\* SERVICO and ARQUIVO_ORIGEM columns and the forward fill. A header row beyond the
\* sheet gives no column, and a sheet of fewer than two columns keeps its labels:
\* df['GRUPO_ECONOMICO'] then raises.
ReadWithHeader ==
    /\ sheet.pc = "read"
    /\ sheet' =
          IF sheet.header_row >= Len(sheet.df_raw)
                 \/ Len(sheet.df_raw[sheet.header_row + 1]) < 2
          THEN [sheet EXCEPT !.pc = "raised", !.exc = "KeyError"]
          ELSE LET labels == Labels(sheet.df_raw[sheet.header_row + 1])
                   columns == <<Str("GRUPO_ECONOMICO"), Str("VARIAVEL")>>
                                  \o SubSeq(labels, 3, Len(labels))
                                  \o <<Str("SERVICO"), Str("ARQUIVO_ORIGEM")>>
                   data == SubSeq(sheet.df_raw, sheet.header_row + 2, Len(sheet.df_raw))
                   rows == [i \in 1..Len(data) |->
                               data[i] \o <<Str(sheet.metadata.servico),
                                            Str(sheet.metadata.filename)>>]
               IN  [sheet EXCEPT !.pc = "extracted",
                                 !.df = [columns |-> columns, rows |-> ffill(rows, 1)],
                                 !.log = Append(@, Log("INFO", "Extraidos", Len(rows)))]
    /\ UNCHANGED <<db, ld, pool, faults, runVars, calls, hashed>>

\* What transform logs before its row loop: the count of month columns, then the
\* error when there is none, or the count of records when there is no row.
TransformLog(month_columns, rows) ==
    <<Log("INFO", "Colunas de meses identificadas", Len(month_columns))>>
        \o (IF month_columns = <<>>
            THEN <<Log("ERROR", "Nenhuma coluna de mes encontrada", 0)>>
            ELSE IF rows = <<>> THEN <<Log("INFO", "Transformados", 0)>>
            ELSE <<>>)

\* transform up to the row loop: the month columns, and the return of no record
\* when there is none.
ClassifyColumns ==
    /\ sheet.pc = "extracted"
    /\ LET month_columns == MonthColumns(sheet.df.columns, 1)
       IN  sheet' = [sheet EXCEPT !.month_columns = month_columns,
                                  !.i = 1,
                                  !.pc = IF month_columns = <<>> \/ sheet.df.rows = <<>>
                                         THEN "transformed" ELSE "rows",
                                  !.log = @ \o TransformLog(month_columns, sheet.df.rows)]
    /\ UNCHANGED <<db, ld, pool, faults, runVars, calls, hashed>>

\* One iteration of the row loop of transform; after the last, the log of the count
\* of records.
TransformRow ==
    /\ sheet.pc = "rows"
    /\ LET records == sheet.records \o RowRecords(sheet.df, sheet.i, sheet.month_columns)
           last == sheet.i = Len(sheet.df.rows)
       IN  sheet' = [sheet EXCEPT !.records = records,
                                  !.i = @ + 1,
                                  !.pc = IF last THEN "transformed" ELSE "rows",
                                  !.log = IF last
                                          THEN Append(@, Log("INFO", "Transformados",
                                                             Len(records)))
                                          ELSE @]
    /\ UNCHANGED <<db, ld, pool, faults, runVars, calls, hashed>>

NextSheet ==
    ReadRaw \/ FindHeaderRow \/ LogHeader \/ ReadWithHeader \/ ClassifyColumns
        \/ TransformRow

SpecSheet == InitSheet /\ [][NextSheet]_vars

(***************************************************************************)
(* load of the records of one period, for every period of the target years *)
(***************************************************************************)

\* ano_mes as transform writes it: year, two-digit month, day 01.
TempoPeriods == {ToString(y) \o "-" \o Pad2(m) \o "-01" : y \in Anos, m \in 1..12}

\* One record of a period, alone or followed by a record of the first period.
TempoInputs ==
    {<<DataRecord(p, "CLARO", "SMP", "IDA", 85, "SMP_2018.ods", 0)>> : p \in TempoPeriods}
        \cup {<<DataRecord(p, "CLARO", "SMP", "IDA", 85, "SMP_2018.ods", 0), R1>> :
                 p \in TempoPeriods}

InitTempo ==
    /\ db = EmptyStore
    /\ \E records \in TempoInputs :
          ld = [c \in Loaders |-> IF c = 1 THEN StartLoad(records) ELSE LdIdle]
    /\ pool = [c \in Loaders |-> [open |-> c = 1, out |-> IF c = 1 THEN 1 ELSE 0]]
    /\ faults = MaxFaults
    /\ pc = "load_tempo"
    /\ recursos = 0
    /\ idx = 0
    /\ all_records = <<>>
    /\ stats = NoStats
    /\ fetches = 0
    /\ outcomes = <<>>
    /\ health = "unchecked"
    /\ final_flush = "none"
    /\ exit_status = -1
    /\ calls = <<>>
    /\ sheet = NoSheet
    /\ hashed = NoHashed

NextTempo == EnsureDimensions(1) \/ InsertBatch(1) \/ Commit(1)

SpecTempo == InitTempo /\ [][NextTempo]_vars

(***************************************************************************)
(* Properties                                                              *)
(***************************************************************************)

FactHashes(store) == KeysIn(store["fact_ida"], "fact_ida")

FactCount(store) == BagCardinality(store["fact_ida"])

DimTables == Tables \ {"fact_ida"}

\* The natural key of a record in a dimension table, as the table stores it.
RecordKey(t, r) == ConflictKey(t, DimRow(t, DimCode(t, r)))

\* C1: a load of the records of the load just before it, both having returned, adds
\* no fact row (the fact row count stays what it was after the first) and returns 0.
C1_LoadIdempotent ==
    \A n \in 2..Len(calls) :
        (/\ calls[n].records = calls[n - 1].records
         /\ ~calls[n - 1].raised
         /\ ~calls[n].raised)
        => /\ calls[n].ret = 0
           /\ FactCount(calls[n].after) = FactCount(calls[n - 1].after)

C1_Witness ==
    \E n \in 2..Len(calls) :
        /\ calls[n].records = calls[n - 1].records
        /\ ~calls[n - 1].raised
        /\ ~calls[n].raised
        /\ calls[n - 1].ret > 0
        /\ Len(calls[n].records) > BatchSize

\* C2: when the insertion of batch k > 1 of a load fails, the fact rows of the
\* batches 1..k-1 of that load are committed in the store once load is over.
C2_EarlierBatchesStay ==
    \A n \in 1..Len(calls) :
        calls[n].failed_batch > 1
        => \A m \in 1..((calls[n].failed_batch - 1) * BatchSize) :
              generate_hash(calls[n].records[m]) \in FactHashes(calls[n].after)

\* C3: when an insert statement of a batch fails, load raises and the store holds
\* no fact row that the load added: the rows of the failing batch inserted before
\* the failure are gone with the rollback.
C3_BatchAtomic ==
    \A n \in 1..Len(calls) :
        calls[n].failed_batch > 0
        => /\ calls[n].raised
           /\ calls[n].after["fact_ida"] = calls[n].before["fact_ida"]

\* A load failed at the second record of a batch whose first record had been inserted.
C3_Witness ==
    \E n \in 1..Len(calls) :
        /\ calls[n].failed_batch > 0
        /\ calls[n].failed_j > 0
        /\ generate_hash(calls[n].records[(calls[n].failed_batch - 1) * BatchSize + 1])
               \notin FactHashes(calls[n].before)

DimensionsUnique(store) ==
    \A t \in DimTables :
        \A row \in BagToSet(store[t]) :
            /\ store[t][row] = 1
            /\ \A other \in BagToSet(store[t]) :
                  ConflictKey(t, other) = ConflictKey(t, row) => other = row

KeysExist(records, store) ==
    \A t \in DimTables, r \in Range(records) : RecordKey(t, r) \in KeysIn(store[t], t)

\* C9: (a) every natural key is in at most one committed dimension row, and in one
\* once a load of a record with that key has returned; (b) _ensure_dimensions over
\* records whose natural keys all exist adds no row; (c) no step changes or removes
\* a committed dimension row.
C9_DimensionsAppendOnly ==
    /\ [](/\ DimensionsUnique(db)
          /\ \A n \in 1..Len(calls) :
                ~calls[n].raised => KeysExist(calls[n].records, db)
          /\ \A c \in Loaders :
                (ld[c].pc \in {"facts", "commit"} /\ KeysExist(ld[c].records, ld[c].before))
                => \A t \in DimTables : ld[c].pending[t] = EmptyBag)
    /\ [][\A t \in DimTables : \A row \in BagToSet(db[t]) :
             row \in BagToSet(db'[t]) /\ db'[t][row] = db[t][row]]_vars

\* A load has passed _ensure_dimensions with all its natural keys already stored.
C9_Witness ==
    /\ ld[1].pc = "commit"
    /\ KeysExist(ld[1].records, ld[1].before)
    /\ Cardinality(KeysIn(db["dim_tempo"], "dim_tempo")) > 1

ErrorsOf(i) == {n \in 1..Len(stats.erros) : stats.erros[n].recurso = i}

\* C4: every resource whose download, extraction or transformation failed has one
\* message in the error list of the run.
C4_FailureRecorded ==
    \A i \in 1..Len(outcomes) :
        outcomes[i].kind \in {"download_failed", "extract_failed", "transform_failed"}
        => Cardinality(ErrorsOf(i)) = 1

Malformed(o) == o.kind \in {"extract_failed", "transform_failed", "bad_records"}

RunOver == pc \in {"returned", "raised"}

\* C5: a run in which the database never failed and exactly one resource was
\* malformed returns normally, with the records of every well-formed resource stored.
C5_OneMalformedResource ==
    (/\ RunOver
     /\ health = "ok"
     /\ faults = 0
     /\ Cardinality({i \in 1..Len(outcomes) : Malformed(outcomes[i])}) = 1)
    => /\ pc = "returned"
       /\ \A i \in 1..Len(outcomes) :
             outcomes[i].kind = "well_formed"
             => \A r \in Range(outcomes[i].records) : generate_hash(r) \in FactHashes(db)

\* C6: once the final load has failed the run is over with the exception raised and
\* no message recorded for it; a load that failed inside the loop has its message in
\* the error list and the loop has gone on: an exception leaves run only from the
\* final load or from the opening of the pool.
C6_FinalFlushPropagates ==
    /\ final_flush = "failed" => pc = "raised"
    /\ pc = "raised" => (final_flush = "failed" \/ outcomes = <<>>)
    /\ \A i \in 1..Len(outcomes) :
          outcomes[i].flush = "failed"
          => /\ \E n \in ErrorsOf(i) : stats.erros[n].e \in {"DatabaseError", "ValueError"}
             /\ idx >= i
             /\ pc \in {"loop", "mid_load", "final_load", "returned", "raised"}

\* A load failed inside the loop, the next resource was processed, and the final
\* load failed as well.
C6_Witness ==
    /\ final_flush = "failed"
    /\ pc = "raised"
    /\ \E i \in 1..Len(outcomes) : outcomes[i].flush = "failed" /\ i < Len(outcomes)

\* C7: no request to the catalog, no download and no extraction before the health
\* check has passed; when it fails the run is over with nothing fetched, no resource
\* processed and the statistics untouched.
C7_PreflightFirst ==
    /\ (fetches > 0 \/ outcomes # <<>> \/ stats # NoStats \/ pool[1].open) => health = "ok"
    /\ health = "failed" => /\ pc = "returned"
                            /\ fetches = 0
                            /\ outcomes = <<>>
                            /\ stats = NoStats

C7_Witness == health = "failed" /\ pc = "returned" /\ exit_status = 0

\* A record of the batch with no row for one of its codes in the dimension tables.
DimensionMissing(r) == ~KeysExist(<<r>>, db)

MatchedPositions(batch) == {m \in 1..Len(batch) : ~DimensionMissing(batch[m])}

\* The positions of the batch whose insert adds a row when only the records with
\* their dimension rows are inserted, in order: the first of each new hash.
AddingPositions(batch) ==
    {m \in MatchedPositions(batch) :
        /\ generate_hash(batch[m]) \notin FactHashes(db)
        /\ \A k \in MatchedPositions(batch) :
              k < m => generate_hash(batch[k]) # generate_hash(batch[m])}

\* C8: _insert_batch never raises on a record with a missing dimension row; when it
\* returns, a warning stands for each such record, none of them has added a row, and
\* the rows added and the count returned are those of the other records alone.
C8_ReferentialMiss ==
    /\ ld[1].pc \notin {"except", "raised"}
    /\ ld[1].pc = "commit"
       => LET batch == ld[1].records
          IN  /\ \A m \in 1..Len(batch) :
                    DimensionMissing(batch[m])
                    => /\ generate_hash(batch[m]) \in Range(ld[1].warnings)
                       /\ generate_hash(batch[m]) \notin FactHashes(ld[1].pending)
              /\ ld[1].pending["fact_ida"]
                    = SetToBag({FactRow(batch[m]) : m \in AddingPositions(batch)})
              /\ ld[1].inserted = Cardinality(AddingPositions(batch))
              /\ Len(ld[1].warnings) = Len(batch) - Cardinality(AddingPositions(batch))

\* A batch of a record with a missing dimension row followed by one that is inserted.
C8_Witness ==
    /\ ld[1].pc = "commit"
    /\ Len(ld[1].records) > 1
    /\ DimensionMissing(ld[1].records[1])
    /\ ld[1].inserted > 0

FactsUnique(store) ==
    \A row \in BagToSet(store["fact_ida"]) :
        /\ store["fact_ida"][row] = 1
        /\ \A other \in BagToSet(store["fact_ida"]) :
              other.hash_registro = row.hash_registro => other = row

BothOver == \A c \in Loaders : ld[c].pc \in {"returned", "raised"}

\* C10: whatever the interleaving of two loads, the committed store holds every
\* dimension key once and every hash once at most, and when both are over every
\* record given to both is stored once.
C10_ConcurrentLoads ==
    /\ DimensionsUnique(db)
    /\ FactsUnique(db)
    /\ BothOver
       => \A r \in Range(ld[1].records) \cap Range(ld[2].records) :
             /\ KeysExist(<<r>>, db)
             /\ Cardinality({row \in BagToSet(db["fact_ida"]) :
                                row.hash_registro = generate_hash(r)}) = 1

\* Both loads have committed, one of them after waiting for a row of the other, and
\* they had a record in common.
C10_Witness ==
    /\ \A c \in Loaders : ld[c].pc = "returned"
    /\ \E c \in Loaders : ld[c].waited
    /\ Range(ld[1].records) \cap Range(ld[2].records) # {}
    /\ ld[1].records # ld[2].records

\* C11: the value a load returns is the number of fact rows the call added to the
\* store: the fact row count after the call minus the count before it. Records of
\* a hash already stored and later records of a hash met earlier in the call add 0.
C11_ReturnsRowsAdded ==
    \A n \in 1..Len(calls) :
        ~calls[n].raised
        => calls[n].ret = FactCount(calls[n].after) - FactCount(calls[n].before)

\* A returned load of more than one batch that added rows, fewer than it attempted.
C11_Witness ==
    \E n \in 1..Len(calls) :
        /\ ~calls[n].raised
        /\ Len(calls[n].records) > BatchSize
        /\ calls[n].ret > 0
        /\ calls[n].ret < Len(calls[n].records)
        /\ calls[n].ret = FactCount(calls[n].after) - FactCount(calls[n].before)

\* C20: every execution of run that is over, having processed at least one resource,
\* has returned its statistics to main (resources processed, records extracted,
\* transformed and loaded, the error list): no failure of a resource or of a load
\* ends it with an exception in place of them.
C20_RunYieldsStats == (RunOver /\ outcomes # <<>>) => pc = "returned"

HashedFields == {"ano_mes", "grupo_economico", "servico", "variavel", "valor"}

\* The five fields generate_hash reads.
HashedTuple(r) == <<r.ano_mes, r.grupo_economico, r.servico, r.variavel, r.valor>>

BothHashed == hashed.pc \in {"hashed", "loading", "loaded", "load_failed"}

\* C17: two records equal in (ano_mes, grupo_economico, servico, variavel, valor)
\* have the same generate_hash, whatever their arquivo_origem and linha_origem; two
\* records that differ in exactly one of the five fields are hashed from different
\* strings.
C17_HashDeterministicSensitive ==
    BothHashed
    => /\ HashedTuple(hashed.a) = HashedTuple(hashed.b) => hashed.hash_a = hashed.hash_b
       /\ Cardinality({f \in HashedFields : hashed.a[f] # hashed.b[f]}) = 1
          => hashed.content_a # hashed.content_b

\* Two records of the same five fields read from different files and lines.
C17_Witness ==
    /\ BothHashed
    /\ HashedTuple(hashed.a) = HashedTuple(hashed.b)
    /\ hashed.a.arquivo_origem # hashed.b.arquivo_origem
    /\ hashed.a.linha_origem # hashed.b.linha_origem
    /\ hashed.hash_a = hashed.hash_b

\* C18: two records that differ in (period, group, service, variable, value) are
\* hashed from different strings, and the loader stores both: a load of the two on
\* an empty store that returns has added two fact rows.
C18_HashFaithfulIdentity ==
    (BothHashed /\ HashedTuple(hashed.a) # HashedTuple(hashed.b))
    => /\ hashed.content_a # hashed.content_b
       /\ hashed.pc = "loaded" => (hashed.ret = 2 /\ FactCount(db) = 2)

\* _find_header_row has just returned.
HeaderKnown == sheet.pc = "log_header"

\* The rows among the first 20 that have the GRUPO and VARIAVEL cells or a cell
\* with a YYYY-MM pattern, as zero-based indexes.
HeaderCandidates(df_raw) ==
    {n \in 0..(Min(20, Len(df_raw)) - 1) :
        LET cells == {upper(strip(str(df_raw[n + 1][k]))) : k \in 1..Len(df_raw[n + 1])}
        IN  \/ (\E v \in cells : Contains(v, "GRUPO"))
                  /\ (\E v \in cells : Contains(v, "VARIAVEL"))
            \/ \E v \in cells : SearchYearMonth(v)}

\* C12: for every raw grid, the empty one and those of fewer than 20 rows included,
\* the header scan returns, without raising, the lowest index below min(20, rows)
\* of a row that has a GRUPO cell and a VARIAVEL cell or a YYYY-MM cell, and 8 when
\* the first 20 rows have no such row.
C12_HeaderRow ==
    /\ HeaderKnown
       => LET cand == HeaderCandidates(sheet.df_raw)
          IN  /\ cand # {} => /\ sheet.header_row \in cand
                              /\ \A n \in cand : sheet.header_row <= n
              /\ cand = {} => sheet.header_row = 8
    /\ sheet.pc = "raised" => (sheet.exc = "ValueError" \/ sheet.header_row >= 0)

\* A grid of more than 20 rows whose only matching row is below the first 20.
C12_Witness ==
    /\ HeaderKnown
    /\ Len(sheet.df_raw) > 20
    /\ sheet.header_row = 8
    /\ ~sheet.found
    /\ \E n \in 21..Len(sheet.df_raw) : RowMatches(sheet.df_raw[n])

\* C13: in both extractors, a header scan that matched no row and fell back to
\* index 8 has logged a warning once the header row is reported, and has not
\* reported the row as a header found.
C13_FallbackWarned ==
    (sheet.pc \in {"read", "extracted", "rows", "transformed"} /\ ~sheet.found)
    => /\ \E n \in 1..Len(sheet.log) : sheet.log[n].level = "WARNING"
       /\ \A n \in 1..Len(sheet.log) :
             sheet.log[n].msg # "Linha de cabecalho encontrada"

\* The data rows of the raw grid below the header row.
RawData == SubSeq(sheet.df_raw, sheet.header_row + 2, Len(sheet.df_raw))

\* The data rows above row i whose group cell is not empty.
GroupsAbove(i) == {n \in 1..(i - 1) : ~isna(RawData[n][1])}

Extracted == sheet.pc \in {"extracted", "rows", "transformed"}

\* C14: after extraction every row whose group cell was empty carries the group of
\* the nearest row above it whose group cell was not empty, and the other rows keep
\* theirs; a row with an empty group cell and none above it to take one from stays
\* empty, and transform makes no record of it.
C14_ForwardFill ==
    Extracted
    => \A i \in 1..Len(sheet.df.rows) :
          LET above == GroupsAbove(i)
              cell == sheet.df.rows[i][1]
          IN  /\ ~isna(RawData[i][1]) => cell = RawData[i][1]
              /\ (isna(RawData[i][1]) /\ above # {})
                 => cell = RawData[CHOOSE n \in above : \A m \in above : m <= n][1]
              /\ (isna(RawData[i][1]) /\ above = {})
                 => /\ isna(cell)
                    /\ \A n \in 1..Len(sheet.records) :
                          sheet.records[n].linha_origem # i - 1

\* A sheet transformed into records, with an empty group cell in its first data row
\* and one further down that took the group of a row two rows above.
C14_Witness ==
    /\ sheet.pc = "transformed"
    /\ sheet.records # <<>>
    /\ Len(sheet.df.rows) > 2
    /\ isna(sheet.df.rows[1][1])
    /\ \E i \in 3..Len(sheet.df.rows) :
          /\ isna(RawData[i][1])
          /\ isna(RawData[i - 1][1])
          /\ ~isna(sheet.df.rows[i][1])
          /\ \E n \in 1..Len(sheet.records) : sheet.records[n].linha_origem = i - 1

\* A label of exactly 7 characters, four digits, a hyphen and two digits, with the
\* year in 2000..2030 and the month in 1..12.
IsYearMonthLabel(label) ==
    /\ Len(label) = 7
    /\ AllDigits(SubSeq(label, 1, 4))
    /\ Char(label, 5) = "-"
    /\ AllDigits(SubSeq(label, 6, 7))
    /\ DigitsValue(SubSeq(label, 1, 4)) \in 2000..2030
    /\ DigitsValue(SubSeq(label, 6, 7)) \in 1..12

Classified == sheet.pc \in {"rows", "transformed"}

\* C15: the columns transform takes as month columns are those whose label, trimmed,
\* is exactly a YYYY-MM text of a year in 2000..2030 and a month in 1..12, and those
\* whose label is a Timestamp; the classification raises for no label.
C15_MonthColumns ==
    /\ Classified
       => \A k \in 1..Len(sheet.df.columns) :
             (\E n \in 1..Len(sheet.month_columns) : sheet.month_columns[n] = k)
             <=> \/ sheet.df.columns[k].kind = "ts"
                 \/ /\ sheet.df.columns[k].kind = "str"
                    /\ IsYearMonthLabel(strip(sheet.df.columns[k].text))
    /\ sheet.pc = "raised" => sheet.month_columns = <<>>

\* What the cell of a month column is worth read as the claim reads it: nothing for
\* an empty cell and for the texts "-", "" and "nan" once trimmed; otherwise the
\* decimal left after the comma is made a point and a percent sign at the end is
\* dropped, nothing when that is not a decimal.
ClaimedValue(cell) ==
    IF isna(cell) \/ strip(cell.text) \in {"-", "", "nan"} THEN [ok |-> FALSE, val |-> 0]
    ELSE LET t == replace(cell.text, ",", ".")
         IN  float(IF Len(t) > 0 /\ Char(t, Len(t)) = "%"
                   THEN SubSeq(t, 1, Len(t) - 1) ELSE t)

\* The records transform made of the cell of row i in column k.
RecordsOfCell(i, k) ==
    {n \in 1..Len(sheet.records) :
        /\ sheet.records[n].linha_origem = i - 1
        /\ sheet.records[n].ano_mes = AnoMes(sheet.df.columns[k])}

\* The rows transform does not skip: group and variable label both present.
KeptRows == {i \in 1..Len(sheet.df.rows) :
                RowText(sheet.df.rows[i][1]) # "" /\ RowText(sheet.df.rows[i][2]) # ""}

\* C16: of the rows transform keeps, an empty or text cell of a month column gives
\* one record, of the value read as the claim reads it, when that reading gives a
\* value, and no record when it gives none.
C16_CellParsing ==
    sheet.pc = "transformed"
    => \A i \in KeptRows, n \in 1..Len(sheet.month_columns) :
          LET k == sheet.month_columns[n]
              cell == sheet.df.rows[i][k]
              claimed == ClaimedValue(cell)
          IN  cell.kind \in {"nan", "str"}
              => /\ ~claimed.ok => RecordsOfCell(i, k) = {}
                 /\ claimed.ok
                    => /\ Cardinality(RecordsOfCell(i, k)) = 1
                       /\ \A m \in RecordsOfCell(i, k) :
                             sheet.records[m].valor = claimed.val

\* trim and collapse runs of whitespace
Collapsed(text) == join(words(strip(text)))

\* C19: every record of a row carries as group the short code of the row's group name
\* when the fixed group table has it, and the name trimmed and whitespace-collapsed
\* otherwise; and as variable the short code of the row's label when the fixed
\* variable table has it, and the label trimmed and whitespace-collapsed otherwise.
C19_Canonicalization ==
    sheet.pc = "transformed"
    => \A n \in 1..Len(sheet.records) :
          LET row == sheet.df.rows[sheet.records[n].linha_origem + 1]
              grupo == Collapsed(str(row[1]))
              variavel == Collapsed(str(row[2]))
          IN  /\ sheet.records[n].grupo_economico =
                    (IF grupo \in DOMAIN group_mapping THEN group_mapping[grupo]
                     ELSE grupo)
              /\ sheet.records[n].variavel =
                    (IF variavel \in DOMAIN VARIABLE_MAPPING
                     THEN VARIABLE_MAPPING[variavel] ELSE variavel)

\* The resources of the run that failed: in download, extraction or transformation,
\* or in the load run for them.
FailedResources ==
    {i \in 1..Len(outcomes) :
        \/ outcomes[i].kind \in {"download_failed", "extract_failed", "transform_failed"}
        \/ outcomes[i].flush = "failed"}

\* C21: once main has exited, the status is 0 when the run returned with no resource
\* failed, and non-zero when at least one resource failed in download, extraction,
\* transformation or loading.
C21_ExitStatus ==
    exit_status # -1
    => /\ (pc = "returned" /\ FailedResources = {}) => exit_status = 0
       /\ FailedResources # {} => exit_status # 0

\* C23: at the start of every iteration of the resource loop the buffer holds fewer
\* than 5 x batch_size records, a flush being run after a resource as soon as it
\* holds that many; and a run that returns after the health check passed has left no
\* record in the buffer that was not submitted to load.
C23_BufferFlushed ==
    /\ pc = "loop" => Len(all_records) < 5 * BatchSize
    /\ pc = "mid_load" => (Len(all_records) >= 5 * BatchSize
                              /\ ld[1].pc # "idle" => ld[1].records = all_records)
    /\ (pc = "returned" /\ health = "ok")
       => (all_records = <<>> \/ final_flush = "loaded")

\* C24: a load that is over has given its connection back, whether it returned or
\* raised; at most one connection is checked out at any time of a run, and only
\* while a load is running; and a run that is over, by return or by exception, has
\* its pool closed.
C24_ConnectionScoped ==
    /\ pool[1].out \in {0, 1}
    /\ pool[1].out = 1 <=> ld[1].pc \in {"dims", "facts", "commit", "except"}
    /\ pool[1].out = 1 => pool[1].open
    /\ ld[1].pc \in {"returned", "raised", "idle"} => pool[1].out = 0
    /\ RunOver => (~pool[1].open /\ pool[1].out = 0)

\* A run ended by the exception of its final load, after a load inside the loop had
\* failed as well: every connection is back and the pool is closed.
C24_Witness ==
    /\ pc = "raised"
    /\ final_flush = "failed"
    /\ \E i \in 1..Len(outcomes) : outcomes[i].flush = "failed"
    /\ pool[1].out = 0
    /\ ~pool[1].open

\* The step of run in which a load inside the loop has raised and the except clause
\* runs.
MidFlushFailsStep == pc = "mid_load" /\ ld[1].pc = "raised" /\ pc' # "mid_load"

\* The step in which run calls load.
LoadCalledStep == ld[1].pc = "idle" /\ ld'[1].pc # "idle"

\* C28: when a load inside the loop raises, the buffer and the loaded-records
\* counter stay as they were, the resource is not counted as processed and one
\* message naming it is added to the error list; every load run calls is given the
\* whole buffer, and the buffer loses no record except when a load inside the loop
\* returns, so the records of the failed flush are submitted again by the next load.
C28_FailedFlushKeepsBuffer ==
    [][/\ MidFlushFailsStep
          => /\ all_records' = all_records
             /\ all_records' # <<>>
             /\ stats'.registros_carregados = stats.registros_carregados
             /\ stats'.recursos_processados = stats.recursos_processados
             /\ stats'.erros = Append(stats.erros, [recurso |-> idx + 1, e |-> ld[1].exc])
             /\ pc' = "loop"
       /\ LoadCalledStep
          => ld'[1].records = all_records'
       /\ ~(pc = "mid_load" /\ ld[1].pc = "returned")
          => /\ Len(all_records') >= Len(all_records)
             /\ SubSeq(all_records', 1, Len(all_records)) = all_records
      ]_vars

\* A flush inside the loop failed for an earlier resource and the next load is
\* running on a buffer that still holds the records of that resource.
C28_Witness ==
    /\ pc \in {"mid_load", "final_load"}
    /\ ld[1].pc \in {"dims", "facts", "commit"}
    /\ \E i \in 1..Len(outcomes) :
          /\ outcomes[i].flush = "failed"
          /\ i <= idx
          /\ outcomes[i].records # <<>>
          /\ \A r \in Range(outcomes[i].records) : r \in Range(ld[1].records)
    /\ ld[1].records = all_records
    /\ stats.erros # <<>>

\* C30: a run whose health check failed, or whose catalog request gave nothing,
\* returns the statistics it started with, all counters zero and no error message,
\* with the pool never opened, and main exits 0 for it as for a run without errors.
C30_EarlyReturnExitsZero ==
    /\ [](health = "failed"
          => /\ pc = "returned"
             /\ stats = NoStats
             /\ ~pool[1].open
             /\ exit_status \in {-1, 0})
    /\ [][/\ (pc \in {"start", "api"} /\ pc' = "returned")
             => (stats' = NoStats /\ ~pool[1].open /\ pool' = pool)
          /\ (exit_status' # exit_status /\ pc = "returned" /\ stats = NoStats)
             => exit_status' = 0
         ]_vars

\* The catalog request gave nothing and main has exited 0.
C30_Witness ==
    /\ health = "ok"
    /\ pc = "returned"
    /\ fetches = 1
    /\ outcomes = <<>>
    /\ stats = NoStats
    /\ exit_status = 0

\* Every fact row refers to a row of each dimension table.
FactKeysExist(store) ==
    \A row \in BagToSet(store["fact_ida"]) :
        /\ row.tempo_key \in KeysIn(store["dim_tempo"], "dim_tempo")
        /\ row.grupo_key \in KeysIn(store["dim_grupo_economico"], "dim_grupo_economico")
        /\ row.servico_key \in KeysIn(store["dim_servico"], "dim_servico")
        /\ row.variavel_key \in KeysIn(store["dim_variavel"], "dim_variavel")

\* C26: in every committed state of a sequence of load calls, returned or failed, the
\* hashes of the fact rows are pairwise distinct and every fact row refers to stored
\* rows of the four dimension tables; and no step changes or removes a committed fact
\* row.
C26_StoreInvariant ==
    /\ [](FactsUnique(db) /\ FactKeysExist(db))
    /\ [][\A row \in BagToSet(db["fact_ida"]) :
             row \in BagToSet(db'["fact_ida"])
             /\ db'["fact_ida"][row] = db["fact_ida"][row]]_vars

\* A load that failed on a store holding fact rows, followed by a load that returned:
\* the rows stored before the failure are all there.
C26_Witness ==
    \E n \in 1..Len(calls) :
        /\ calls[n].raised
        /\ FactCount(calls[n].before) > 1
        /\ n < Len(calls)
        /\ ~calls[n + 1].raised
        /\ \A row \in BagToSet(calls[n].before["fact_ida"]) : row \in BagToSet(db["fact_ida"])

\* The warnings of a batch in which only the first record of each new hash among the
\* records with their dimension rows adds a row: one for every other record, in order.
ZeroRowWarnings(batch) ==
    LET F[m \in 0..Len(batch)] ==
            IF m = 0 THEN <<>>
            ELSE IF m \in AddingPositions(batch) THEN F[m - 1]
            ELSE Append(F[m - 1], generate_hash(batch[m]))
    IN  F[Len(batch)]

\* A record of the batch whose dimension rows exist and whose hash is stored already.
AlreadyStored(r) == ~DimensionMissing(r) /\ generate_hash(r) \in FactHashes(db)

\* C29: when _insert_batch returns, one warning has been logged for each record whose
\* insert affected no row, in the order of the batch and made of the record alone,
\* whether a dimension row was missing or the hash was stored already; a batch of
\* stored records has one warning per record.
C29_ZeroRowsWarned ==
    ld[1].pc = "commit"
    => LET batch == ld[1].records
       IN  /\ ld[1].warnings = ZeroRowWarnings(batch)
           /\ \A m \in 1..Len(batch) :
                 (DimensionMissing(batch[m]) \/ AlreadyStored(batch[m]))
                 => generate_hash(batch[m]) \in Range(ld[1].warnings)
           /\ (\A m \in 1..Len(batch) : AlreadyStored(batch[m]))
              => Len(ld[1].warnings) = Len(batch)

\* A batch of one record with a missing dimension row and one whose hash is stored:
\* two warnings.
C29_Witness ==
    /\ ld[1].pc = "commit"
    /\ \E m, k \in 1..Len(ld[1].records) :
          /\ DimensionMissing(ld[1].records[m])
          /\ AlreadyStored(ld[1].records[k])
    /\ Len(ld[1].warnings) = 2

\* A first-of-month date string YYYY-MM-01.
IsFirstOfMonth(s) ==
    /\ Len(s) = 10
    /\ AllDigits(SubSeq(s, 1, 4))
    /\ Char(s, 5) = "-"
    /\ AllDigits(SubSeq(s, 6, 7))
    /\ DigitsValue(SubSeq(s, 6, 7)) \in 1..12
    /\ SubSeq(s, 8, 10) = "-01"

\* C27: every record transform has emitted has an ano_mes of the form YYYY-MM-01,
\* whatever month column it comes from, and strptime of _ensure_dimensions reads it.
C27_PeriodWellFormed ==
    sheet.pc \in {"rows", "transformed"}
    => \A n \in 1..Len(sheet.records) :
          /\ IsFirstOfMonth(sheet.records[n].ano_mes)
          /\ strptime(sheet.records[n].ano_mes).ok

\* The cells of the month columns of the rows transform keeps.
MonthCells == KeptRows \X Range(sheet.month_columns)

\* A bad cell: not one of the empty markers, and not a number.
BadCells ==
    {c \in MonthCells :
        LET cell == sheet.df.rows[c[1]][c[2]]
        IN  /\ ~(isna(cell) \/ strip(str(cell)) \in {"-", "", "nan"})
            /\ ~parse_value(cell).ok}

\* A cell that holds a number.
GoodCells ==
    {c \in MonthCells :
        LET cell == sheet.df.rows[c[1]][c[2]]
        IN  /\ ~(isna(cell) \/ strip(str(cell)) \in {"-", "", "nan"})
            /\ parse_value(cell).ok}

\* What transform has logged after the count of month columns.
LoggedByRowLoop ==
    LET first == CHOOSE n \in 1..Len(sheet.log) :
                    sheet.log[n].msg = "Colunas de meses identificadas"
    IN  {sheet.log[n] : n \in (first + 1)..Len(sheet.log)}

\* C22: transform never raises; a bad cell of a month column gives no record while
\* every cell of the same row and of the other rows that holds a number gives its
\* record; and the number of bad cells skipped is reported by transform when it is
\* over.
C22_BadCellsSkippedCounted ==
    /\ sheet.pc = "raised" => (sheet.i = 0 /\ sheet.records = <<>>)
    /\ (sheet.pc = "transformed" /\ sheet.month_columns # <<>>)
       => /\ \A c \in BadCells : RecordsOfCell(c[1], c[2]) = {}
          /\ \A c \in GoodCells : Cardinality(RecordsOfCell(c[1], c[2])) = 1
          /\ Len(sheet.records) = Cardinality(GoodCells)
          /\ BadCells # {}
             => \E entry \in LoggedByRowLoop :
                   /\ entry.msg # "Transformados"
                   /\ entry.n = Cardinality(BadCells)

\* The ceiling of m / d.
Ceiling(m, d) == CHOOSE q \in 0..m : d * q >= m /\ d * (q - 1) < m

\* The rows of dim_tempo, committed or inserted by the running load.
TempoRows == BagToSet(db["dim_tempo"]) \cup BagToSet(ld[1].pending["dim_tempo"])

\* C25: every row of the time dimension has the year and the month of its period, the
\* Portuguese name of that month, the quarter ceiling(month / 3), in 1..4, and the half
\* ceiling(month / 6), in 1..2; and once the load has returned there is such a row for
\* the period of every record.
C25_TempoDerivation ==
    /\ \A row \in TempoRows :
          /\ row.ano = row.ano_mes[1]
          /\ row.mes = row.ano_mes[2]
          /\ row.mes \in 1..12
          /\ row.mes_nome = month_names[row.mes]
          /\ row.trimestre = Ceiling(row.mes, 3)
          /\ row.trimestre \in 1..4
          /\ row.semestre = Ceiling(row.mes, 6)
          /\ row.semestre \in 1..2
    /\ ld[1].pc = "returned"
       => \A r \in Range(ld[1].records) :
             \E row \in BagToSet(db["dim_tempo"]) :
                /\ ToString(row.ano) \o "-" \o Pad2(row.mes) \o "-01" = r.ano_mes
                /\ row.ano_mes[3] = 1

\* The load of a record of December 2019 has returned: quarter 4, half 2, with the
\* row of January 2018 (quarter 1, half 1) beside it.
C25_Witness ==
    /\ pc = "load_tempo"
    /\ ld[1].pc = "returned"
    /\ \E row \in BagToSet(db["dim_tempo"]) :
          /\ row.ano = 2019 /\ row.mes = 12 /\ row.mes_nome = "Dezembro"
          /\ row.trimestre = 4 /\ row.semestre = 2
    /\ \E row \in BagToSet(db["dim_tempo"]) :
          /\ row.ano = 2018 /\ row.mes = 1 /\ row.mes_nome = "Janeiro"
          /\ row.trimestre = 1 /\ row.semestre = 1

====
